---- MODULE Spec2Model ----
(***************************************************************************)
(* Work-order number allocation of the maintenance tracker.                *)
(*                                                                         *)
(* The model covers the counter table (work_type_counters), the work-order *)
(* table (work_orders), the allocator functions of                         *)
(* app/utils/workOrderNumber.ts, the work-order creation endpoint (POST    *)
(* /api/work-orders) that calls the allocator, the administrative resets   *)
(* and the read-only preview of the next number.                           *)
(*                                                                         *)
(* Every SQL statement runs on a pooled connection in autocommit mode: no  *)
(* handler issues BEGIN/COMMIT, so each statement is its own transaction   *)
(* and is one atomic step of the model; a handler made of several          *)
(* statements is a sequence of steps other requests can interleave with.   *)
(*                                                                         *)
(* Spec takes each statement as one step. CreateSpec is the creation       *)
(* endpoint by itself with room for requests that collide. TxSpec splits   *)
(* the statements of the allocator, the resets and the counter read into   *)
(* the writes under row locks and the commit, and SeededSpec runs the      *)
(* allocator on counter tables that are in service.                        *)
(*                                                                         *)
(* previewNextWorkOrderNumber and getWorkTypeCode are imported by the      *)
(* sources but defined outside them; they follow the written design        *)
(* (max(stored counter, highest issued sequence) + 1, no write; "E" for    *)
(* Electrical). requireRoleAtLeast of app/api/middleware is outside them   *)
(* too: it admits a caller whose role is at least the one it is given.     *)
(***************************************************************************)
EXTENDS Integers, Sequences, FiniteSets, TLC

(* ------------------------------ bounds --------------------------------- *)

\* Largest counter value a category is driven to.
MaxCounter == 2

\* Largest number of rows the work-order table is driven to.
MaxOrders == 1

\* Request slots served concurrently (each slot is reused).
Procs == {"r1", "r2"}

(* --------------------------- program constants ------------------------- *)

\* String(counter).padStart(3, '0')
PadWidth == 3

\* The pad character '0', as a digit.
PadDigit == 0

\* HTTP statuses of the creation endpoint (0: no response yet).
StatusOk == 200
StatusBadRequest == 400
StatusServerError == 500
NoResponse == 0

\* Counter value standing for "no row for this code".
NoRow == -1

WorkTypes == {"Electrical", "Mechanical"}
DefaultWorkType == "Electrical"

\* excel.getWorkTypeCode: the fixed lookup from work-type name to code.
getWorkTypeCode(workType) ==
  CASE workType = "Electrical" -> "E"
    [] workType = "Mechanical" -> "M"

Codes == {getWorkTypeCode(w) : w \in WorkTypes}

(* ------------------------- strings and numbers ------------------------- *)

Max(a, b) == IF a >= b THEN a ELSE b

\* String(n) for n >= 0, as the sequence of its decimal digits.
RECURSIVE ToDigits(_)
ToDigits(n) == IF n < 10 THEN <<n>> ELSE Append(ToDigits(n \div 10), n % 10)

\* s.padStart(width, fill): fill on the left up to width, never truncating.
RECURSIVE padStart(_, _, _)
padStart(s, width, fill) ==
  IF Len(s) >= width THEN s ELSE padStart(<<fill>> \o s, width, fill)

\* The decimal value of a digit string (parseInt of the suffix).
RECURSIVE ParseDigits(_)
ParseDigits(ds) ==
  IF ds = <<>> THEN 0
  ELSE 10 * ParseDigits(SubSeq(ds, 1, Len(ds) - 1)) + ds[Len(ds)]

\* Variant: the padded number is cut to its last three digits (slice(-3)).
FormatTruncates(workTypeCode, counter) ==
  LET d == padStart(ToDigits(counter), PadWidth, PadDigit) IN
  [code |-> workTypeCode, digits |-> SubSeq(d, Len(d) - 2, Len(d))]

\* Variant: the number is formatted without padStart.
FormatUnpadded(workTypeCode, counter) ==
  [code |-> workTypeCode, digits |-> ToDigits(counter)]

\* Variant: the number is formatted from counter + 1.
FormatOffByOne(workTypeCode, counter) ==
  [code |-> workTypeCode, digits |-> padStart(ToDigits(counter + 1), PadWidth, PadDigit)]

\* `${workTypeCode}-${paddedNumber}`: an identifier is the pair of its
\* prefix and the digit string after the dash.
FormatWorkOrderNo(workTypeCode, counter) ==
  [code |-> workTypeCode, digits |-> padStart(ToDigits(counter), PadWidth, PadDigit)]

\* undefined / '' : no work-order number.
NoNumber == [code |-> "", digits |-> <<>>]

\* A legacy number that does not follow <code>-<digits>.
LegacyNumber == [code |-> "WO/2023", digits |-> <<>>]

\* The sequence number an identifier carries.
SeqOf(no) == ParseDigits(no.digits)

\* Numbers a user may type into the form.
TypedNumbers == {FormatWorkOrderNo(c, 1) : c \in Codes} \cup {LegacyNumber}

\* Dates as the form may send them, one character class per position
\* ("d" a digit, otherwise the character itself).
IsoDate == <<"d", "d", "d", "d", "-", "d", "d", "-", "d", "d">>
SlashDate == <<"d", "d", "/", "d", "d", "/", "d", "d", "d", "d">>
Dates == {IsoDate, SlashDate}

\* /^\d{4}-\d{2}-\d{2}$/.test(work_order_date)
dateRegexTest(d) ==
  /\ Len(d) = 10
  /\ \A i \in 1..10 : IF i \in {5, 8} THEN d[i] = "-" ELSE d[i] = "d"

(* ------------------------------- state --------------------------------- *)

VARIABLES
  counters,          \* work_type_counters: code -> counter, NoRow if absent
  work_orders,       \* work_orders rows
  pc,                \* position of each request slot
  body,              \* the page's form, then the body of its creation request
  finalWorkOrderNo,  \* POST's local finalWorkOrderNo
  workOrderId,       \* POST's local workOrder.id (0: no row inserted)
  response,          \* status of the last response sent to the slot
  thrown,            \* the awaited call whose error the catch logged ("": none)
  issued,            \* per code, the identifiers returned by
                     \* generateWorkOrderNumber since the code's last reset
  uncommitted,       \* per slot, the row versions its open statement has
                     \* written and not yet committed (it holds their locks)
  result,            \* per slot, what its last getWorkTypeCounter returned
  checkedOut         \* clients of the pool that are checked out

vars == <<counters, work_orders, pc, body, finalWorkOrderNo, workOrderId,
          response, thrown, issued, uncommitted, result, checkedOut>>

\* No value returned (yet).
NoResult == [returned |-> FALSE, counter |-> 0]

\* prefilled: the number in the form is the one the preview put there.
NoBody ==
  [work_order_no |-> NoNumber, work_type |-> "", work_order_date |-> <<>>,
   prefilled |-> FALSE]

Init ==
  /\ counters = [c \in Codes |-> NoRow]
  /\ work_orders = {}
  /\ pc = [p \in Procs |-> "idle"]
  /\ body = [p \in Procs |-> NoBody]
  /\ finalWorkOrderNo = [p \in Procs |-> NoNumber]
  /\ workOrderId = [p \in Procs |-> 0]
  /\ response = [p \in Procs |-> NoResponse]
  /\ thrown = [p \in Procs |-> ""]
  /\ issued = [c \in Codes |-> <<>>]
  /\ uncommitted = [p \in Procs |-> {}]
  /\ result = [p \in Procs |-> NoResult]
  /\ checkedOut = 0

(* --------------------------- connection pool --------------------------- *)

\* const client = await pool.connect()
Connect(n) == n + 1

\* finally { client.release() }
Release(n) == n - 1

\* Variant: client.release() is the last statement of the try block, so a
\* return or a throw before it leaves the client checked out.
ReleaseOnSuccess(n, status) == IF status = StatusOk THEN n - 1 ELSE n

\* The creation endpoint's finally block: it runs on every way out of the
\* try block, whatever the response.
ReleaseOnExit(n, status) == Release(n)

(* --------------------------- counter store ----------------------------- *)

\* SELECT counter ... : the stored counter, 0 when the row is absent.
StoredCounter(tbl, code) == IF tbl[code] = NoRow THEN 0 ELSE tbl[code]

\* Variant: DO UPDATE SET counter = EXCLUDED.counter.
UpsertExcluded(tbl, code) == 1

\* Variant: DO UPDATE SET counter = work_type_counters.counter.
UpsertNoIncrement(tbl, code) == IF tbl[code] = NoRow THEN 1 ELSE tbl[code]

\* Variant: DO UPDATE SET counter = work_type_counters.counter + 2.
UpsertSkips(tbl, code) == IF tbl[code] = NoRow THEN 1 ELSE tbl[code] + 2

\* Variant: the sequence is a counter the server process keeps in memory.
UpsertFromMemory(tbl, code) == Len(issued[code]) + 1

\* Variant: the sequence is taken from the number of work orders stored.
UpsertCountsRows(tbl, code) == Cardinality(work_orders) + 1

\* INSERT ... VALUES ($1, 1) ON CONFLICT DO UPDATE SET counter = counter + 1
\* RETURNING counter: the value the statement leaves in the row.
UpsertedCounter(tbl, code) == IF tbl[code] = NoRow THEN 1 ELSE tbl[code] + 1

\* The counter table after the upsert.
UpsertCounter(tbl, code) == [tbl EXCEPT ![code] = UpsertedCounter(tbl, code)]

\* Variant: the reset is a DELETE of the row.
ResetDeletesRow(tbl, code) == [tbl EXCEPT ![code] = NoRow]

\* Variant: the reset is an upsert to 0 and creates the row it does not find.
ResetCreatesRow(tbl, code) == [tbl EXCEPT ![code] = 0]

\* Variant: the UPDATE has lost its WHERE clause.
ResetWithoutWhere(tbl, code) == [c \in Codes |-> IF tbl[c] = NoRow THEN NoRow ELSE 0]

\* UPDATE work_type_counters SET counter = 0 WHERE work_type_code = $1
ResetOne(tbl, code) ==
  IF tbl[code] = NoRow THEN tbl ELSE [tbl EXCEPT ![code] = 0]

\* UPDATE work_type_counters SET counter = 0
ResetAll(tbl) == [c \in Codes |-> IF tbl[c] = NoRow THEN NoRow ELSE 0]

\* Variant: a failed call gives a number back by decrementing the counter.
FailedGivesBack(tbl, code) == [tbl EXCEPT ![code] = @ - 1]

\* Variant: the increment survives the failure of the call.
FailedWrites(tbl, code) == UpsertCounter(tbl, code)

\* The counter table after a statement that failed: a failed statement is
\* rolled back as a whole.
AfterFailedStatement(tbl, code) == tbl

(* ------------------------- issued-identifier scan ---------------------- *)

\* Identifiers of the table that match <code>-<digits>.
MatchingNumbers(orders, code) ==
  {w.work_order_no : w \in {x \in orders :
      x.work_order_no.code = code /\ Len(x.work_order_no.digits) >= 1}}

RECURSIVE SetMax(_)
SetMax(S) ==
  IF S = {} THEN 0
  ELSE LET x == CHOOSE y \in S : TRUE IN Max(x, SetMax(S \ {x}))

\* latestFromOrders: the highest sequence among the matching identifiers.
LatestFromOrders(orders, code) ==
  SetMax({SeqOf(n) : n \in MatchingNumbers(orders, code)})

\* Variant: the preview advances the counter as an allocation does.
PreviewWrites(tbl, code) == UpsertCounter(tbl, code)

\* The counter table after a preview: the preview performs no write.
PreviewLeaves(tbl, code) == tbl

\* previewNextWorkOrderNumber(workType): max(stored, latest) + 1, formatted.
previewNextWorkOrderNumber(tbl, orders, workType) ==
  LET code == getWorkTypeCode(workType) IN
  FormatWorkOrderNo(code,
    Max(StoredCounter(tbl, code), LatestFromOrders(orders, code)) + 1)

(* ----------------------- creation endpoint: POST ----------------------- *)

\* !finalWorkOrderNo || finalWorkOrderNo.trim() === ''
IsBlank(no) == no = NoNumber

CodeOf(p) == getWorkTypeCode(body[p].work_type)

\* Positions of a creation request inside the handler.
InHandler == {"g_query", "c_check", "c_insert", "c_children"}

\* Requests that will still call generateWorkOrderNumber for the code.
PendingGenerates(code) ==
  {p \in Procs : pc[p] = "g_query" /\ CodeOf(p) = code}

\* Variant: the existence check finds nothing.
NeverExists(orders, no) == FALSE

\* The table holds a work order with the number.
Exists(orders, no) == \E w \in orders : w.work_order_no = no

\* Requests that may still insert a work order.
PendingInserts ==
  {p \in Procs : /\ pc[p] \in {"g_query", "c_check", "c_insert"}
                 /\ dateRegexTest(body[p].work_order_date)}

\* The handler returns: the finally block releases the client, the locals
\* go away and the slot is free for the next request.
Respond(p, status, error) ==
  /\ pc' = [pc EXCEPT ![p] = "idle"]
  /\ response' = [response EXCEPT ![p] = status]
  /\ thrown' = [thrown EXCEPT ![p] = error]
  /\ body' = [body EXCEPT ![p] = NoBody]
  /\ finalWorkOrderNo' = [finalWorkOrderNo EXCEPT ![p] = NoNumber]
  /\ workOrderId' = [workOrderId EXCEPT ![p] = 0]
  /\ checkedOut' = ReleaseOnExit(checkedOut, status)

\* The date validation that follows the number: 400 on a malformed date,
\* otherwise on to the INSERT with the number no.
AfterNumber(p, no) ==
  IF dateRegexTest(body[p].work_order_date)
  THEN /\ pc' = [pc EXCEPT ![p] = "c_insert"]
       /\ finalWorkOrderNo' = [finalWorkOrderNo EXCEPT ![p] = no]
       /\ UNCHANGED <<response, thrown, body, workOrderId, checkedOut>>
  ELSE Respond(p, StatusBadRequest, "")

\* The page asks the preview endpoint for the next number of the chosen
\* work type and puts the answer into its form.
Preview(p) ==
  /\ pc[p] \in {"idle", "form"}
  /\ \E wt \in WorkTypes :
       /\ body' = [body EXCEPT ![p] =
            [work_order_no |-> previewNextWorkOrderNumber(counters, work_orders, wt),
             work_type |-> wt, work_order_date |-> <<>>, prefilled |-> TRUE]]
       /\ counters' = PreviewLeaves(counters, getWorkTypeCode(wt))
  /\ pc' = [pc EXCEPT ![p] = "form"]
  /\ response' = [response EXCEPT ![p] = NoResponse]
  /\ thrown' = [thrown EXCEPT ![p] = ""]
  /\ UNCHANGED <<work_orders, finalWorkOrderNo, workOrderId, issued, uncommitted,
                 result, checkedOut>>

\* A creation request arrives: request.json(), pool.connect(),
\* finalWorkOrderNo = work_order_no and the branch on a blank number. The
\* page sends the number in its form (the previewed one, work_order_no:
\* formData.work_order_no || undefined), a typed one or none.
\* A request that carries a number never reads its work type, and with a
\* malformed date it ends in a 400 without a write, so the requests that
\* carry a number are enumerated with one work type and a well-formed date.
\* Requests that may insert a work order are admitted while the table, with
\* the inserts still pending, stays within cap rows.
StartCreateWithin(p, cap) ==
  /\ pc[p] \in {"idle", "form"}
  /\ \E no \in ({NoNumber, body[p].work_order_no} \cup TypedNumbers),
        wt \in WorkTypes, d \in Dates :
       /\ ~IsBlank(no) => (wt = DefaultWorkType /\ d = IsoDate)
       /\ IsBlank(no) =>
            StoredCounter(counters, getWorkTypeCode(wt))
              + Cardinality(PendingGenerates(getWorkTypeCode(wt))) < MaxCounter
       /\ dateRegexTest(d) =>
            Cardinality(work_orders) + Cardinality(PendingInserts) < cap
       /\ body' = [body EXCEPT ![p] =
                     [work_order_no |-> no, work_type |-> wt, work_order_date |-> d,
                      prefilled |-> /\ pc[p] = "form"
                                    /\ ~IsBlank(no)
                                    /\ no = body[p].work_order_no]]
       /\ finalWorkOrderNo' = [finalWorkOrderNo EXCEPT ![p] = no]
       /\ pc' = [pc EXCEPT ![p] = IF IsBlank(no) THEN "g_query" ELSE "c_check"]
  /\ response' = [response EXCEPT ![p] = NoResponse]
  /\ thrown' = [thrown EXCEPT ![p] = ""]
  /\ checkedOut' = Connect(checkedOut)
  /\ UNCHANGED <<counters, work_orders, workOrderId, issued, uncommitted,
                 result>>

StartCreate(p) == StartCreateWithin(p, MaxOrders)

\* Variant: the allocator stores a placeholder work order for the number.
AllocationReserves(orders, no) ==
  orders \cup {[id |-> Cardinality(orders) + 1, work_order_no |-> no,
                children |-> FALSE]}

\* The work-order table after generateWorkOrderNumber has run: its one
\* statement names work_type_counters only.
AfterAllocation(orders, no) == orders

\* generateWorkOrderNumber: the upsert, the formatting of rows[0].counter,
\* the release of the client and the return into finalWorkOrderNo; then the
\* caller's date validation. The client the function connects is released
\* within the step; the endpoint's own client stays checked out.
GenerateQuery(p) ==
  /\ pc[p] = "g_query"
  /\ LET code == CodeOf(p)
         tbl == UpsertCounter(counters, code)
         no == FormatWorkOrderNo(code, tbl[code])
     IN /\ counters' = tbl
        /\ issued' = [issued EXCEPT ![code] = Append(@, no)]
        /\ work_orders' = AfterAllocation(work_orders, no)
        /\ AfterNumber(p, no)
  /\ UNCHANGED <<uncommitted, result>>

\* SELECT id, work_order_no FROM work_orders WHERE work_order_no = $1, the
\* 400 when a row exists, otherwise the date validation.
CheckExisting(p) ==
  /\ pc[p] = "c_check"
  /\ IF Exists(work_orders, finalWorkOrderNo[p])
     THEN Respond(p, StatusBadRequest, "")
     ELSE AfterNumber(p, finalWorkOrderNo[p])
  /\ UNCHANGED <<counters, work_orders, issued, uncommitted, result>>

\* INSERT INTO work_orders (...) RETURNING *
InsertWorkOrder(p) ==
  /\ pc[p] = "c_insert"
  /\ LET id == Cardinality(work_orders) + 1 IN
       /\ work_orders' = work_orders \cup
            {[id |-> id, work_order_no |-> finalWorkOrderNo[p], children |-> FALSE]}
       /\ workOrderId' = [workOrderId EXCEPT ![p] = id]
  /\ pc' = [pc EXCEPT ![p] = "c_children"]
  /\ UNCHANGED <<counters, body, finalWorkOrderNo, response, thrown, issued,
                 uncommitted, result, checkedOut>>

\* The inserts of the work order's authority links and complaints, then the
\* success response. No other statement of the model reads these rows, so
\* they are written in one step.
InsertChildren(p) ==
  /\ pc[p] = "c_children"
  /\ work_orders' =
       {IF w.id = workOrderId[p] THEN [w EXCEPT !.children = TRUE] ELSE w :
          w \in work_orders}
  /\ Respond(p, StatusOk, "")
  /\ UNCHANGED <<counters, issued, uncommitted, result>>

\* An awaited query throws: the finally blocks release the clients and the
\* outer catch answers 500. The failed statement itself changes nothing.
CreateThrows(p) ==
  /\ pc[p] \in InHandler
  /\ counters' = IF pc[p] = "g_query"
                 THEN AfterFailedStatement(counters, CodeOf(p))
                 ELSE counters
  /\ Respond(p, StatusServerError, pc[p])
  /\ UNCHANGED <<work_orders, issued, uncommitted, result>>

(* ------------------------------- resets -------------------------------- *)

\* resetWorkTypeCounter(workTypeCode)
ResetWorkTypeCounter(code) ==
  /\ counters' = ResetOne(counters, code)
  /\ issued' = [issued EXCEPT ![code] = <<>>]
  /\ counters' # counters
  /\ UNCHANGED <<work_orders, pc, body, finalWorkOrderNo, workOrderId,
                 response, thrown, uncommitted, result, checkedOut>>

\* resetAllWorkTypeCounters()
ResetAllWorkTypeCounters ==
  /\ counters' = ResetAll(counters)
  /\ issued' = [c \in Codes |-> <<>>]
  /\ counters' # counters
  /\ UNCHANGED <<work_orders, pc, body, finalWorkOrderNo, workOrderId,
                 response, thrown, uncommitted, result, checkedOut>>

Next ==
  \/ \E p \in Procs : Preview(p)
  \/ \E p \in Procs : StartCreate(p)
  \/ \E p \in Procs : GenerateQuery(p)
  \/ \E p \in Procs : CheckExisting(p)
  \/ \E p \in Procs : InsertWorkOrder(p)
  \/ \E p \in Procs : InsertChildren(p)
  \/ \E p \in Procs : CreateThrows(p)
  \/ \E c \in Codes : ResetWorkTypeCounter(c)
  \/ ResetAllWorkTypeCounters

Spec == Init /\ [][Next]_vars

(* -------------------- creation requests that collide ------------------- *)

\* The creation endpoint by itself, with room for one work order more than
\* in Spec: two requests can stand before their INSERT together, and a
\* request can arrive for a number that is already stored.
CreateNext ==
  \/ \E p \in Procs : StartCreateWithin(p, MaxOrders + 1)
  \/ \E p \in Procs : GenerateQuery(p)
  \/ \E p \in Procs : CheckExisting(p)
  \/ \E p \in Procs : InsertWorkOrder(p)
  \/ \E p \in Procs : InsertChildren(p)
  \/ \E p \in Procs : CreateThrows(p)

CreateSpec == Init /\ [][CreateNext]_vars

(* ------------- the allocator's statements under row locks -------------- *)

(***************************************************************************)
(* TxSpec looks inside the statements of app/utils/workOrderNumber.ts.     *)
(* Each is one autocommit statement: it takes the lock of every row it     *)
(* writes (waiting while another statement holds one of them), writes the  *)
(* new row versions, and its implicit transaction then commits, which      *)
(* publishes the versions and releases the locks, or rolls back. Callers   *)
(* invoke generateWorkOrderNumber as the creation endpoint does, with the  *)
(* request's work_type and work_type_code, and the resets as the           *)
(* reset-counters endpoint does, with a work_type_code or without one.     *)
(* An UPDATE of several rows takes its row locks one after the other, in   *)
(* the order in which its scan meets the rows; the statement does not fix  *)
(* that order, so any order is possible.                                   *)
(***************************************************************************)

\* No work_type_code in the request.
NoCode == ""

\* Values of the request field work_type_code.
RequestCodes == Codes \cup {NoCode}

\* A body whose work_type_code is null, and one that has no such field.
Null == "<null>"
Undefined == "<undefined>"

\* Values of work_type_code in a reset-counters request.
ResetRequestCodes == Codes \cup {NoCode, Null, Undefined}

\* if (work_type_code)
Truthy(v) == v \notin {NoCode, Null, Undefined}

\* The roles of a caller, in ascending order of rights.
Roles == {"user", "admin", "superadmin"}

RoleRank(role) ==
  CASE role = "user" -> 1
    [] role = "admin" -> 2
    [] role = "superadmin" -> 3

\* requireRoleAtLeast(request, least) lets the caller pass.
requireRoleAtLeast(role, least) == RoleRank(role) >= RoleRank(least)

\* Variant: the reset endpoint asks for the role the other endpoints ask for.
ResetAdmitsUsers(role) == requireRoleAtLeast(role, "user")

\* const auth = requireRoleAtLeast(request, 'admin');
\* if (auth instanceof NextResponse) return auth;
ResetAdmits(role) == requireRoleAtLeast(role, "admin")

\* Rows whose lock the open statement of slot q holds.
LockedRows(q) == {r.code : r \in uncommitted[q]}

\* Variant: a statement writes without waiting for the row's lock.
NeverWaits(p, rows) == {}

\* Variant: an UPDATE writes its rows without locking them, so nobody waits
\* for a reset.
WaitsForUpserts(p, rows) ==
  {q \in Procs \ {p} : pc[q] = "g_commit" /\ LockedRows(q) \cap rows # {}}

\* The slots whose open statements hold the lock of one of the rows the
\* statement of slot p is about to write: it waits until they have ended.
WaitsFor(p, rows) == {q \in Procs \ {p} : LockedRows(q) \cap rows # {}}

\* Variant: the upsert runs under LOCK TABLE work_type_counters.
UpsertLocksTable(tbl, code) ==
  {[code |-> c,
    counter |-> IF c = code THEN UpsertedCounter(tbl, code) ELSE tbl[c]] :
     c \in Codes}

\* The row version the upsert writes (and whose lock it takes): the row of
\* $1 alone.
UpsertWrites(tbl, code) ==
  {[code |-> code, counter |-> UpsertedCounter(tbl, code)]}

\* The row versions an UPDATE ... SET counter = 0 writes: the existing rows
\* its WHERE clause matches (every existing row without one).
ResetWrites(tbl, code) ==
  LET after == IF Truthy(code) THEN ResetOne(tbl, code) ELSE ResetAll(tbl)
  IN {[code |-> c, counter |-> after[c]] :
        c \in {x \in Codes : tbl[x] # NoRow /\ (~Truthy(code) \/ x = code)}}

\* The counter table once the row versions in rows are committed.
Committed(tbl, rows) ==
  [c \in Codes |->
     IF \E r \in rows : r.code = c
     THEN (CHOOSE r \in rows : r.code = c).counter
     ELSE tbl[c]]

\* Calls of generateWorkOrderNumber for the code that have not returned.
OpenGenerates(code) ==
  {q \in Procs : pc[q] \in {"g_query", "g_commit"} /\ CodeOf(q) = code}

\* Variant: a catch block turns the failed read into the default.
FailedReadDefaults(tbl, code) == [returned |-> TRUE, counter |-> 0]

\* What getWorkTypeCounter hands back when its query fails: nothing, the
\* function has no catch block and the error leaves it.
FailedRead(tbl, code) == NoResult

\* finalWorkOrderNo = await generateWorkOrderNumber(work_type, work_type_code)
\* Inside, pool.connect() has answered and the statement is about to run.
TxCallGenerate(p) ==
  /\ pc[p] = "idle"
  /\ \E wt \in WorkTypes, wtc \in RequestCodes :
       /\ Len(issued[getWorkTypeCode(wt)])
            + Cardinality(OpenGenerates(getWorkTypeCode(wt))) < MaxCounter
       /\ body' = [body EXCEPT ![p] = [work_type |-> wt, work_type_code |-> wtc]]
  /\ pc' = [pc EXCEPT ![p] = "g_query"]
  /\ finalWorkOrderNo' = [finalWorkOrderNo EXCEPT ![p] = NoNumber]
  /\ thrown' = [thrown EXCEPT ![p] = ""]
  /\ result' = [result EXCEPT ![p] = NoResult]
  /\ response' = [response EXCEPT ![p] = NoResponse]
  /\ checkedOut' = Connect(checkedOut)
  /\ UNCHANGED <<counters, work_orders, workOrderId, issued, uncommitted>>

\* A reset-counters request: the role check, then
\* if (work_type_code) resetWorkTypeCounter(work_type_code)
\* else resetAllWorkTypeCounters()
\* Inside, pool.connect() has answered and the UPDATE starts: targets are
\* the rows its WHERE clause matches in what is committed at that moment.
\* A caller the role check turns away gets the check's response at once,
\* before the body is read.
TxCallReset(p) ==
  /\ pc[p] = "idle"
  /\ \E role \in Roles, wtc \in ResetRequestCodes :
       LET admitted == ResetAdmits(role) IN
         /\ body' = [body EXCEPT ![p] =
              IF admitted
              THEN [work_type_code |-> wtc, role |-> role,
                    targets |-> {r.code : r \in ResetWrites(counters, wtc)}]
              ELSE [work_type_code |-> Undefined, role |-> role,
                    targets |-> {}]]
         /\ pc' = [pc EXCEPT ![p] = IF admitted THEN "r_query" ELSE "idle"]
         /\ checkedOut' = IF admitted THEN Connect(checkedOut) ELSE checkedOut
  /\ finalWorkOrderNo' = [finalWorkOrderNo EXCEPT ![p] = NoNumber]
  /\ thrown' = [thrown EXCEPT ![p] = ""]
  /\ result' = [result EXCEPT ![p] = NoResult]
  /\ response' = [response EXCEPT ![p] = NoResponse]
  /\ UNCHANGED <<counters, work_orders, workOrderId, issued, uncommitted>>

\* getWorkTypeCounter(workType) is called: pool.connect() has answered and
\* the SELECT is about to run.
TxCallRead(p) ==
  /\ pc[p] = "idle"
  /\ \E wt \in WorkTypes :
       body' = [body EXCEPT ![p] = [work_type |-> wt, work_type_code |-> NoCode]]
  /\ pc' = [pc EXCEPT ![p] = "s_query"]
  /\ finalWorkOrderNo' = [finalWorkOrderNo EXCEPT ![p] = NoNumber]
  /\ thrown' = [thrown EXCEPT ![p] = ""]
  /\ result' = [result EXCEPT ![p] = NoResult]
  /\ response' = [response EXCEPT ![p] = NoResponse]
  /\ checkedOut' = Connect(checkedOut)
  /\ UNCHANGED <<counters, work_orders, workOrderId, issued, uncommitted>>

\* SELECT counter FROM work_type_counters WHERE work_type_code = $1 reads the
\* committed row without waiting for its lock; the function returns 0 when
\* there is no row and rows[0].counter otherwise, and releases the client.
TxSelect(p) ==
  /\ pc[p] = "s_query"
  /\ result' = [result EXCEPT ![p] =
       [returned |-> TRUE, counter |-> StoredCounter(counters, CodeOf(p))]]
  /\ pc' = [pc EXCEPT ![p] = "idle"]
  /\ checkedOut' = Release(checkedOut)
  /\ UNCHANGED <<counters, work_orders, body, finalWorkOrderNo, workOrderId,
                 response, thrown, issued, uncommitted>>

\* The upsert of generateWorkOrderNumber executes: the code comes from
\* getWorkTypeCode(workType), the function's only parameter.
TxUpsert(p) ==
  /\ pc[p] = "g_query"
  /\ LET rows == UpsertWrites(counters, CodeOf(p)) IN
       /\ WaitsFor(p, {r.code : r \in rows}) = {}
       /\ uncommitted' = [uncommitted EXCEPT ![p] = rows]
  /\ pc' = [pc EXCEPT ![p] = "g_commit"]
  /\ UNCHANGED <<counters, work_orders, body, finalWorkOrderNo, workOrderId,
                 response, thrown, issued, result, checkedOut>>

\* The UPDATE of resetWorkTypeCounter or resetAllWorkTypeCounters goes on:
\* it locks and writes the next of its rows, whichever its scan meets, once
\* no other statement holds that row; with its last row written (or with no
\* row to write) the statement is complete.
TxReset(p) ==
  /\ pc[p] = "r_query"
  /\ LET remaining == body[p].targets \ LockedRows(p) IN
       IF remaining = {}
       THEN /\ pc' = [pc EXCEPT ![p] = "r_commit"]
            /\ UNCHANGED uncommitted
       ELSE \E c \in remaining :
              /\ WaitsFor(p, {c}) = {}
              /\ uncommitted' = [uncommitted EXCEPT ![p] =
                   @ \cup {r \in ResetWrites(counters, body[p].work_type_code) :
                             r.code = c}]
              /\ pc' = [pc EXCEPT ![p] =
                   IF remaining = {c} THEN "r_commit" ELSE "r_query"]
  /\ UNCHANGED <<counters, work_orders, body, finalWorkOrderNo, workOrderId,
                 response, thrown, issued, result, checkedOut>>

\* The statement's transaction commits and the function returns: the
\* allocator formats rows[0].counter, the resets return nothing and the
\* reset endpoint answers with its success message.
TxCommit(p) ==
  /\ pc[p] \in {"g_commit", "r_commit"}
  /\ counters' = Committed(counters, uncommitted[p])
  /\ uncommitted' = [uncommitted EXCEPT ![p] = {}]
  /\ IF pc[p] = "g_commit"
     THEN LET code == CodeOf(p)
              counter == (CHOOSE r \in uncommitted[p] : r.code = code).counter
              no == FormatWorkOrderNo(code, counter)
          IN /\ finalWorkOrderNo' = [finalWorkOrderNo EXCEPT ![p] = no]
             /\ issued' = [issued EXCEPT ![code] = Append(@, no)]
     ELSE /\ issued' = [c \in Codes |->
                          IF c \in LockedRows(p) THEN <<>> ELSE issued[c]]
          /\ UNCHANGED finalWorkOrderNo
  /\ pc' = [pc EXCEPT ![p] = "idle"]
  /\ response' = [response EXCEPT ![p] =
       IF pc[p] = "r_commit" THEN StatusOk ELSE @]
  /\ body' = [body EXCEPT ![p] = IF pc[p] = "r_commit" THEN NoBody ELSE @]
  /\ checkedOut' = Release(checkedOut)
  /\ UNCHANGED <<work_orders, workOrderId, thrown, result>>

\* The statement fails: what it wrote is rolled back, its locks are
\* released, the finally block releases the client and the error goes to
\* the caller; the reset endpoint catches it and answers 500.
TxRollback(p) ==
  /\ pc[p] \in {"g_query", "g_commit", "r_query", "r_commit", "s_query"}
  /\ uncommitted' = [uncommitted EXCEPT ![p] = {}]
  /\ pc' = [pc EXCEPT ![p] = "idle"]
  /\ thrown' = [thrown EXCEPT ![p] = pc[p]]
  /\ result' = [result EXCEPT ![p] =
       IF pc[p] = "s_query" THEN FailedRead(counters, CodeOf(p)) ELSE NoResult]
  /\ response' = [response EXCEPT ![p] =
       IF pc[p] \in {"r_query", "r_commit"} THEN StatusServerError ELSE @]
  /\ body' = [body EXCEPT ![p] =
       IF pc[p] \in {"r_query", "r_commit"} THEN NoBody ELSE @]
  /\ checkedOut' = Release(checkedOut)
  /\ UNCHANGED <<counters, work_orders, finalWorkOrderNo, workOrderId, issued>>

TxNext ==
  \/ \E p \in Procs : TxCallGenerate(p)
  \/ \E p \in Procs : TxCallReset(p)
  \/ \E p \in Procs : TxCallRead(p)
  \/ \E p \in Procs : TxSelect(p)
  \/ \E p \in Procs : TxUpsert(p)
  \/ \E p \in Procs : TxReset(p)
  \/ \E p \in Procs : TxCommit(p)
  \/ \E p \in Procs : TxRollback(p)

TxSpec == Init /\ [][TxNext]_vars

(* ----------------- the allocator on a store in service ----------------- *)

\* Counters a store in service may hold when the calls begin: no row, a
\* one-digit counter, and counters next to the widths 2/3 and 3/4.
SeedCounters == {NoRow, 5, 98, 998, 999}

\* The state after construction, on a counter table that has been in use.
SeededInit ==
  /\ counters \in [Codes -> SeedCounters]
  /\ work_orders = {}
  /\ pc = [p \in Procs |-> "idle"]
  /\ body = [p \in Procs |-> NoBody]
  /\ finalWorkOrderNo = [p \in Procs |-> NoNumber]
  /\ workOrderId = [p \in Procs |-> 0]
  /\ response = [p \in Procs |-> NoResponse]
  /\ thrown = [p \in Procs |-> ""]
  /\ issued = [c \in Codes |-> <<>>]
  /\ uncommitted = [p \in Procs |-> {}]
  /\ result = [p \in Procs |-> NoResult]
  /\ checkedOut = 0

\* Calls of generateWorkOrderNumber alone.
SeededNext ==
  \/ \E p \in Procs : TxCallGenerate(p)
  \/ \E p \in Procs : TxUpsert(p)
  \/ \E p \in Procs : TxCommit(p)

SeededSpec == SeededInit /\ [][SeededNext]_vars

(* ------------------------------ properties ----------------------------- *)

\* The identifier the latest generateWorkOrderNumber call for code returned.
LastIssued(code) == issued[code][Len(issued[code])]

\* The identifier the call for code that returns in this step returns.
Returned(code) == issued'[code][Len(issued'[code])]

\* The step in which slot p's generateWorkOrderNumber call returns normally.
GenerateReturns(p) ==
  /\ pc[p] = "g_query"
  /\ Len(issued'[CodeOf(p)]) = Len(issued[CodeOf(p)]) + 1

\* The step in which slot p's generateWorkOrderNumber call throws.
GenerateFails(p) ==
  /\ pc[p] = "g_query"
  /\ pc'[p] # "g_query"
  /\ Len(issued'[CodeOf(p)]) # Len(issued[CodeOf(p)]) + 1

\* Slot q holds a number its generateWorkOrderNumber call returned for code.
HoldsGenerated(q, code) ==
  /\ pc[q] \in {"c_insert", "c_children"}
  /\ IsBlank(body[q].work_order_no)
  /\ CodeOf(q) = code

\* C1: among the generateWorkOrderNumber calls for one code with no reset of
\* that code between them, however they interleave, no two return the same
\* sequence number.
C1_NoDoubleIssue ==
  \A c \in Codes : \A i, j \in 1..Len(issued[c]) :
    i # j => SeqOf(issued[c][i]) # SeqOf(issued[c][j])

\* Two calls for one code have returned while the request of the first is
\* still being served.
C1_Witness ==
  \E c \in Codes, p \in Procs :
    /\ Len(issued[c]) >= 2
    /\ HoldsGenerated(p, c)
    /\ finalWorkOrderNo[p] = issued[c][1]

\* C2: a successful generate for code X returns
\* max(stored counter or 0, highest sequence among the X-<digits> work-order
\* numbers or 0) + 1.
C2_Reconciliation ==
  [][\A p \in Procs : GenerateReturns(p) =>
       SeqOf(Returned(CodeOf(p))) =
         Max(StoredCounter(counters, CodeOf(p)),
             LatestFromOrders(work_orders, CodeOf(p))) + 1]_vars

\* C3: generate never returns an identifier that is already the
\* work_order_no of a row of the work-order table.
C3_NoReuse ==
  [][\A p \in Procs : GenerateReturns(p) =>
       \A w \in work_orders : w.work_order_no # Returned(CodeOf(p))]_vars

\* C4 as claimed: whatever happens in between (resets included), a generate
\* returns a sequence number strictly greater than the one a request still
\* holds from a generate for the same code that returned before it.
C4_StrictOrderingAcrossResets ==
  [][\A p \in Procs : GenerateReturns(p) =>
       \A q \in Procs \ {p} : HoldsGenerated(q, CodeOf(p)) =>
         SeqOf(Returned(CodeOf(p))) > SeqOf(finalWorkOrderNo[q])]_vars

\* C4 as amended: the sequence numbers returned for a code since the code's
\* last administrative reset are strictly increasing in the order the calls
\* committed.
C4_StrictOrderingBetweenResets ==
  \A c \in Codes : \A i, j \in 1..Len(issued[c]) :
    i < j => SeqOf(issued[c][i]) < SeqOf(issued[c][j])

\* Both categories have been allocated from, one of them twice, without a
\* reset since.
C4_Witness ==
  /\ Len(issued["E"]) >= 2
  /\ Len(issued["M"]) >= 1

\* C5: for every code, every value from 1 up to the greatest sequence number
\* issued (since the code's last reset, which is the whole run when only
\* generate calls happen) has been issued exactly once.
C5_GapFree ==
  \A c \in Codes :
    \A k \in 1..SetMax({SeqOf(issued[c][i]) : i \in 1..Len(issued[c])}) :
      Cardinality({i \in 1..Len(issued[c]) : SeqOf(issued[c][i]) = k}) = 1

\* A code has been driven to the largest counter of the model.
C5_Witness ==
  \E c \in Codes : Len(issued[c]) >= 2 /\ SeqOf(LastIssued(c)) = MaxCounter

\* C6: right after a successful generate for code X, the row of X exists and
\* its counter is the sequence number the call returned.
C6_CounterPersisted ==
  [][\A p \in Procs : GenerateReturns(p) =>
       /\ counters'[CodeOf(p)] # NoRow
       /\ counters'[CodeOf(p)] = SeqOf(Returned(CodeOf(p)))]_vars

\* A generate has inserted the row of one code and updated the row of the
\* other, and nothing has reset them since.
C6_Witness ==
  /\ Len(issued["E"]) = 1 /\ counters["E"] = 1
  /\ Len(issued["M"]) = 2 /\ counters["M"] = 2

\* C7: a generate call that fails leaves the counter table as it was, returns
\* no identifier, hands its error to the caller (whose catch logs it and
\* answers 500) and is not tried again.
C7_FailedAllocationLeavesNoTrace ==
  [][\A p \in Procs : GenerateFails(p) =>
       /\ counters' = counters
       /\ issued' = issued
       /\ pc'[p] = "idle"
       /\ response'[p] = StatusServerError
       /\ thrown'[p] = "g_query"]_vars

\* A generate call has failed for a code whose row exists.
C7_Witness ==
  \E p \in Procs :
    /\ thrown[p] = "g_query"
    /\ response[p] = StatusServerError
    /\ \E c \in Codes : counters[c] >= 1

\* C8: a creation request that ends in anything but a success response leaves
\* behind neither a counter increment of its generate call nor a work order
\* it inserted.
C8_NoOrphanNoPartial ==
  [][\A p \in Procs :
       (pc[p] \in InHandler /\ pc'[p] = "idle" /\ response'[p] # StatusOk) =>
         /\ counters' = counters
         /\ IsBlank(body[p].work_order_no) => IsBlank(finalWorkOrderNo[p])
         /\ workOrderId[p] = 0]_vars

\* The step in which slot p's page receives a preview.
PreviewReturns(p) ==
  /\ pc[p] \in {"idle", "form"}
  /\ pc'[p] = "form"
  /\ pc[p] = "idle" \/ body'[p] # body[p]

\* C9: a preview writes neither table, and a second preview for the same work
\* type right after it returns the same number.
C9_PreviewDoesNotReserve ==
  [][\A p \in Procs : PreviewReturns(p) =>
       /\ counters' = counters
       /\ work_orders' = work_orders
       /\ previewNextWorkOrderNumber(counters', work_orders', body'[p].work_type)
            = body'[p].work_order_no]_vars

\* A page holds a preview that follows the stored counter of a code.
C9_Witness ==
  \E p \in Procs :
    /\ pc[p] = "form"
    /\ counters[getWorkTypeCode(body[p].work_type)] >= 1
    /\ SeqOf(body[p].work_order_no)
         = counters[getWorkTypeCode(body[p].work_type)] + 1

\* C10: the identifier generate returns is the one the preview for the same
\* work type returns in the state generate starts from.
C10_PreviewAgreesWithGenerate ==
  [][\A p \in Procs : GenerateReturns(p) =>
       Returned(CodeOf(p)) =
         previewNextWorkOrderNumber(counters, work_orders, body[p].work_type)]_vars

\* C11: no work order is inserted under the number the preview put into the
\* page's form: a request of the create flow that ends in a row got its
\* number from generateWorkOrderNumber while it was served.
C11_PreviewNeverPersisted ==
  \A p \in Procs : pc[p] = "c_children" => ~body[p].prefilled

\* C12: a generateWorkOrderNumber call or a resetWorkTypeCounter for code a
\* leaves the row of every other code b (absent or present, and its counter)
\* and the numbers issued for b as they were; what a call for a code returns
\* is determined by that code's row alone.
C12_CrossCategoryFrame ==
  [][/\ \A a \in Codes : \A b \in Codes \ {a} :
          (\/ \E p \in Procs : GenerateReturns(p) /\ CodeOf(p) = a
           \/ ResetWorkTypeCounter(a))
            => /\ counters'[b] = counters[b]
               /\ issued'[b] = issued[b]
     /\ \A p \in Procs : GenerateReturns(p) =>
          SeqOf(Returned(CodeOf(p))) = StoredCounter(counters, CodeOf(p)) + 1]_vars

\* Numbers have been issued for M while E was allocated from and reset.
C12_Witness ==
  /\ counters["E"] = 0
  /\ \E p \in Procs : HoldsGenerated(p, "E")
  /\ Len(issued["M"]) = 2
  /\ counters["M"] = 2

\* C13: a generateWorkOrderNumber call whose statement has not executed yet
\* can execute it while a call for another code holds its lock uncommitted,
\* and the open statement of a call holds the lock of its own code's row and
\* of no other row.
C13_NoGlobalLock ==
  /\ \A p \in Procs : \A q \in Procs \ {p} :
       (/\ pc[p] = "g_query"
        /\ pc[q] = "g_commit"
        /\ CodeOf(p) # CodeOf(q)) => ENABLED TxUpsert(p)
  /\ \A q \in Procs : pc[q] = "g_commit" => LockedRows(q) = {CodeOf(q)}

\* Two calls for different codes hold their row locks at the same time.
C13_Witness ==
  /\ pc["r1"] = "g_commit" /\ CodeOf("r1") = "E"
  /\ pc["r2"] = "g_commit" /\ CodeOf("r2") = "M"

\* The open statements are serialized per row: no two hold the lock of one
\* row; the version an open upsert wrote is still the committed counter + 1
\* (no other write to the row took effect after it read); and a call for a
\* code whose row is locked by another statement cannot execute its upsert.
RowLocksExclude ==
  /\ \A p \in Procs : \A q \in Procs \ {p} :
       LockedRows(p) \cap LockedRows(q) = {}
  /\ \A p \in Procs : pc[p] = "g_commit" =>
       \A r \in uncommitted[p] :
         r.counter = StoredCounter(counters, r.code) + 1
  /\ \A p \in Procs : \A q \in Procs \ {p} :
       (pc[p] = "g_query" /\ CodeOf(p) \in LockedRows(q)) =>
         ~ENABLED TxUpsert(p)

\* C14: every change of a counter row is the commit of a statement that
\* holds the row's lock, and the open statements are serialized per row:
\* between an upsert's read and its commit no other write to the row takes
\* effect, and a call for the same code waits for the holder to end.
C14_SameCategorySerialized ==
  /\ []RowLocksExclude
  /\ [][\A c \in Codes : counters'[c] # counters[c] =>
          \E p \in Procs : /\ c \in LockedRows(p)
                           /\ pc[p] \in {"g_commit", "r_commit"}
                           /\ uncommitted'[p] = {}]_vars

\* A call waits for the lock a call for the same code holds, and a reset
\* waits for it too.
C14_Witness ==
  \E p, q \in Procs :
    /\ pc[p] = "g_commit" /\ counters[CodeOf(p)] >= 1
    /\ pc[q] \in {"g_query", "r_query"}
    /\ q # p
    /\ IF pc[q] = "g_query" THEN CodeOf(q) = CodeOf(p)
       ELSE body[q].work_type_code \in {CodeOf(p), NoCode}

\* C15: the identifier a generateWorkOrderNumber(work_type, work_type_code)
\* call returned carries the request's work_type_code as its prefix when one
\* was given, and the code derived from the work type otherwise.
C15_CodeOverride ==
  \A p \in Procs :
    (pc[p] = "idle" /\ ~IsBlank(finalWorkOrderNo[p])) =>
      finalWorkOrderNo[p].code =
        IF body[p].work_type_code # NoCode
        THEN body[p].work_type_code
        ELSE getWorkTypeCode(body[p].work_type)

\* C16: in every reachable counter table, resetWorkTypeCounter(c) sets the
\* row of c to 0 if it exists and changes no other row,
\* resetAllWorkTypeCounters sets every existing row to 0, and neither
\* removes a row nor creates one.
C16_ResetEffect ==
  /\ \A c \in Codes :
       LET after == ResetOne(counters, c) IN
         /\ (after[c] = NoRow) <=> (counters[c] = NoRow)
         /\ counters[c] # NoRow => after[c] = 0
         /\ \A b \in Codes \ {c} : after[b] = counters[b]
  /\ LET after == ResetAll(counters) IN
       \A c \in Codes :
         /\ (after[c] = NoRow) <=> (counters[c] = NoRow)
         /\ counters[c] # NoRow => after[c] = 0

\* The row of E has been reset after an allocation a request still holds,
\* while M has no row.
C16_Witness ==
  /\ counters["E"] = 0
  /\ counters["M"] = NoRow
  /\ \E p \in Procs : HoldsGenerated(p, "E")

\* C17: every row of the counter table holds a counter >= 0, and the counter
\* of a code is lower after a step than before it (or its row gone) only
\* when the step is a resetWorkTypeCounter of that code or a
\* resetAllWorkTypeCounters.
C17_CounterInvariant ==
  /\ [](\A c \in Codes : counters[c] = NoRow \/ counters[c] >= 0)
  /\ [][\A c \in Codes :
          (counters[c] # NoRow /\ counters'[c] < counters[c]) =>
            (ResetWorkTypeCounter(c) \/ ResetAllWorkTypeCounters)]_vars

\* The counter of M was driven to 2 and reset while a request still holds
\* the second number.
C17_Witness ==
  /\ counters["M"] = 0
  /\ \E p \in Procs : HoldsGenerated(p, "M") /\ SeqOf(finalWorkOrderNo[p]) = 2

\* C18: the row of a code appears only in a step in which a
\* generateWorkOrderNumber call for that code returns (no preview, reset or
\* failed call creates it), and a row that exists still exists after every
\* step.
C18_RowLifecycle ==
  [][\A c \in Codes :
       /\ (counters[c] = NoRow /\ counters'[c] # NoRow) =>
            \E p \in Procs : GenerateReturns(p) /\ CodeOf(p) = c
       /\ counters[c] # NoRow => counters'[c] # NoRow]_vars

\* The row of E has outlived a reset and the first call for M has created
\* the row of M.
C18_Witness ==
  /\ counters["E"] = 0
  /\ counters["M"] = 1
  /\ Len(issued["M"]) = 1

\* C19: counting from the empty counter store (and again from a reset), the
\* k-th generateWorkOrderNumber call that returns for a code C returns C,
\* a dash and k padded with zeros to three digits: E-001, then E-002.
C19_FreshSequence ==
  \A c \in Codes : \A k \in 1..Len(issued[c]) :
    /\ issued[c][k].code = c
    /\ k < 10 => issued[c][k].digits = <<0, 0, k>>

\* Two calls for Electrical have returned on a store that held no row, with
\* the work-order table still empty.
C19_Witness ==
  /\ Len(issued["E"]) = 2
  /\ LastIssued("E") = [code |-> "E", digits |-> <<0, 0, 2>>]
  /\ counters["M"] = NoRow
  /\ work_orders = {}

\* The sequence number the k-th identifier of issued[c] was formatted from:
\* each call adds 1, and the latest one left its value in the row.
SequenceOf(c, k) == StoredCounter(counters, c) - Len(issued[c]) + k

\* C20: a returned identifier is the code, a dash and the decimal digits of
\* the sequence number with zeros on the left up to three digits: at least
\* three digits, the value of the digits is the sequence number (nothing is
\* cut off), more than three digits carry no leading zero, 6 gives 006 and
\* 1000 gives 1000; identifiers of different sequence numbers differ.
C20_IdentifierFormat ==
  \A c \in Codes : \A k \in 1..Len(issued[c]) :
    LET id == issued[c][k]
        n == SequenceOf(c, k)
    IN /\ id.code = c
       /\ Len(id.digits) >= 3
       /\ \A j \in 1..Len(id.digits) : id.digits[j] \in 0..9
       /\ ParseDigits(id.digits) = n
       /\ Len(id.digits) > 3 => id.digits[1] # 0
       /\ n = 6 => id.digits = <<0, 0, 6>>
       /\ n = 1000 => id.digits = <<1, 0, 0, 0>>
       /\ \A j \in 1..Len(issued[c]) : j # k => issued[c][j] # id

\* E has been issued 999 and then 1000, M has been issued 006.
C20_Witness ==
  /\ Len(issued["E"]) = 2
  /\ issued["E"][1].digits = <<9, 9, 9>>
  /\ issued["E"][2].digits = <<1, 0, 0, 0>>
  /\ Len(issued["M"]) >= 1
  /\ issued["M"][1].digits = <<0, 0, 6>>

(* ------------------- C21: reading a counter ---------------------------- *)

Malformed(orders, code) ==
  {w \in orders : \/ w.work_order_no.code # code
                  \/ w.work_order_no.digits = <<>>}

C23_WorkOrdersUntouched ==
  [][/\ (\/ counters' # counters
         \/ issued' # issued
         \/ \E p \in Procs : GenerateFails(p) \/ PreviewReturns(p))
        => work_orders' = work_orders
     /\ work_orders' # work_orders =>
          \E p \in Procs : /\ pc[p] \in {"c_insert", "c_children"}
                           /\ pc'[p] # pc[p]]_vars

\* A work order is stored, a counter has been reset, another has issued a
\* number and a preview has answered.
C23_Witness ==
  /\ work_orders # {}
  /\ \E c \in Codes : counters[c] = 0
  /\ \E c \in Codes : issued[c] # <<>>
  /\ \E p \in Procs : pc[p] = "form" /\ body[p].prefilled

(* ------------------- C24: no in-process state -------------------------- *)

\* C24: what generateWorkOrderNumber returns is a function of the stored
\* counter and of its argument alone: whichever slot runs the call, and
\* whatever that slot has done before (nothing, when the process has just
\* started on a store in service), the call stages and returns stored
\* counter + 1 for the code derived from the argument, and two slots that
\* stand before the statement for one code would stage the same row.
C24_NoInProcessState ==
  /\ [](\A p, q \in Procs :
          (pc[p] = "g_query" /\ pc[q] = "g_query" /\ CodeOf(p) = CodeOf(q)) =>
            LET rows == {[code |-> CodeOf(p),
                          counter |-> StoredCounter(counters, CodeOf(p)) + 1]}
            IN (ENABLED (TxUpsert(p) /\ uncommitted'[p] = rows))
                 <=> (ENABLED (TxUpsert(q) /\ uncommitted'[q] = rows)))
  /\ [][\A p \in Procs :
          /\ (pc[p] = "g_query" /\ pc'[p] = "g_commit") =>
               uncommitted'[p] =
                 {[code |-> CodeOf(p),
                   counter |-> StoredCounter(counters, CodeOf(p)) + 1]}
          /\ (pc[p] = "g_commit" /\ pc'[p] = "idle") =>
               finalWorkOrderNo'[p] =
                 FormatWorkOrderNo(getWorkTypeCode(body[p].work_type),
                                   StoredCounter(counters, CodeOf(p)) + 1)]_vars

\* On a store in service, one slot's first call has returned the successor
\* of the seeded counter and the other slot's first call the one after it.
C24_Witness ==
  \E p, q \in Procs :
    /\ p # q /\ pc[p] = "idle" /\ pc[q] = "idle"
    /\ body[p].work_type \in WorkTypes /\ body[q].work_type = body[p].work_type
    /\ Len(issued[CodeOf(p)]) = 2
    /\ finalWorkOrderNo[p] # NoNumber /\ finalWorkOrderNo[q] # NoNumber
    /\ SeqOf(finalWorkOrderNo[p]) >= 6
    /\ SeqOf(finalWorkOrderNo[q]) = SeqOf(finalWorkOrderNo[p]) + 1
    /\ counters[CodeOf(p)] = SeqOf(finalWorkOrderNo[q])

(* ------------------- C25: unique work-order numbers -------------------- *)

\* C25: after any interleaving of creation requests, with generated and
\* with typed numbers, no two work orders carry the same work_order_no.
C25_UniqueWorkOrderNo ==
  \A v, w \in work_orders : v.work_order_no = w.work_order_no => v = w

(* ------------------- C26: the manual-number path ----------------------- *)

\* C26: a request with a non-blank work_order_no never calls
\* generateWorkOrderNumber and none of its steps changes the counter store;
\* when a work order with that number is stored, the existence check
\* answers 400 and the request inserts nothing.
C26_ManualNumberPath ==
  /\ [](\A p \in Procs : pc[p] = "g_query" => IsBlank(body[p].work_order_no))
  /\ [][\A p \in Procs :
          (/\ pc[p] \in InHandler
           /\ pc'[p] # pc[p]
           /\ ~IsBlank(body[p].work_order_no)) =>
            /\ counters' = counters
            /\ issued' = issued
            /\ (/\ pc[p] = "c_check"
                /\ \E w \in work_orders : w.work_order_no = finalWorkOrderNo[p])
                 => /\ pc'[p] = "idle"
                    /\ work_orders' = work_orders
                    /\ thrown'[p] = "" => response'[p] = StatusBadRequest]_vars

\* A request has been answered 400 although no number was ever generated and
\* every request with a typed number carries a well-formed date: the typed
\* number was the one of the stored work order.
C26_Witness ==
  /\ \A c \in Codes : counters[c] = NoRow
  /\ Cardinality(work_orders) = 1
  /\ \E p \in Procs : pc[p] = "idle" /\ response[p] = StatusBadRequest

(* ------------------- C27: reset against generate ----------------------- *)

\* C27: a reset and a generateWorkOrderNumber call for one code take effect
\* one after the other, in either order. Every change of a counter row is
\* the commit of an upsert that leaves the committed counter + 1 (1 for a
\* missing row) and returns exactly that value, or the commit of a reset
\* that leaves 0; no commit publishes a value computed from a counter that
\* has changed since, so no update is lost and no value in between shows.
C27_ResetGenerateAtomic ==
  [][/\ \A p \in Procs :
          (pc[p] = "g_commit" /\ pc'[p] = "idle" /\ thrown'[p] = "") =>
            /\ counters'[CodeOf(p)] = StoredCounter(counters, CodeOf(p)) + 1
            /\ finalWorkOrderNo'[p] =
                 FormatWorkOrderNo(CodeOf(p), counters'[CodeOf(p)])
     /\ \A p \in Procs :
          (pc[p] = "r_commit" /\ pc'[p] = "idle" /\ thrown'[p] = "") =>
            \A c \in body[p].targets : counters'[c] = 0
     /\ \A c \in Codes :
          counters'[c] # counters[c] =>
            \E p \in Procs :
              /\ pc'[p] = "idle"
              /\ \/ pc[p] = "g_commit" /\ CodeOf(p) = c
                 \/ pc[p] = "r_commit" /\ c \in body[p].targets]_vars

\* A reset holds the lock of a row with a counter in use, its write not yet
\* committed, while a generateWorkOrderNumber call for that code waits.
C27_Witness ==
  \E p, q \in Procs :
    /\ pc[p] = "r_commit"
    /\ pc[q] = "g_query"
    /\ CodeOf(q) \in LockedRows(p)
    /\ counters[CodeOf(q)] >= 1

(* ------------------- C28: no deadlock ---------------------------------- *)

\* C28: no set of concurrent allocator calls deadlocks: while calls are open,
\* one of them can go on (execute its statement, take its next row lock,
\* commit or return) without any call having to fail first.
C28_NoDeadlock ==
  (\E p \in Procs : pc[p] # "idle") =>
    \E p \in Procs :
      ENABLED (TxUpsert(p) \/ TxReset(p) \/ TxCommit(p) \/ TxSelect(p))

(* ------------------- C29: pooled connections --------------------------- *)

\* C29: every client a call checks out of the pool is released exactly once
\* on every way out: the clients checked out are one per request or call in
\* progress, so when a call has returned, with a result, an early 400 or an
\* error, the number of checked-out clients is what it was before the call.
C29_ConnectionsReleased ==
  checkedOut = Cardinality({p \in Procs : pc[p] \notin {"idle", "form"}})

\* One request has left through an early 400 return and another through a
\* throw, and no client is checked out.
C29_Witness ==
  /\ checkedOut = 0
  /\ \E p, q \in Procs :
       /\ pc[p] = "idle" /\ response[p] = StatusBadRequest
       /\ pc[q] = "idle" /\ response[q] = StatusServerError
       /\ thrown[q] = "g_query"

(* ------------------- C30: the reset endpoint --------------------------- *)

\* The step in which the reset-counters request of slot p is received.
ResetRequested(p) ==
  /\ pc[p] = "idle"
  /\ pc'[p] \in {"idle", "r_query"}
  /\ "role" \in DOMAIN body'[p]
  /\ body'[p] # body[p] \/ pc'[p] = "r_query"

====
